---- MODULE Spec2Model ----
(***************************************************************************)
(* A model of scripts/validate_swift_structure.py: the module-level driver *)
(* (usage check, walk over the path arguments, final report) and           *)
(* check_file (suffix filter, disable marker, delimiter balance scan,      *)
(* duplicate type names, top-level private heuristic).                     *)
(*                                                                         *)
(* A text is a sequence of characters; a character is a one-character      *)
(* string.  Python offsets are 0-based: the character at offset i of a     *)
(* text t is t[i + 1].                                                     *)
(***************************************************************************)
EXTENDS Integers, Sequences, FiniteSets, TLC

(***************************************************************************)
(* Characters and character classes                                        *)
(***************************************************************************)
LowerLetters ==
    <<"a","b","c","d","e","f","g","h","i","j","k","l","m",
      "n","o","p","q","r","s","t","u","v","w","x","y","z">>

UpperLetters ==
    <<"A","B","C","D","E","F","G","H","I","J","K","L","M",
      "N","O","P","Q","R","S","T","U","V","W","X","Y","Z">>

Range(s) == {s[k] : k \in DOMAIN s}

AsciiLetters == Range(LowerLetters) \cup Range(UpperLetters)

Digits == {"0","1","2","3","4","5","6","7","8","9"}

\* [A-Za-z_] and [A-Za-z0-9_] of TYPE_RE
IdentStart == AsciiLetters \cup {"_"}

IdentChars == IdentStart \cup Digits

\* \w of a str pattern: Unicode word characters, of which the ASCII ones
\* are [A-Za-z0-9_]; "é" stands for the non-ASCII ones.
WordChars == IdentChars \cup {"é"}

\* \s of a str pattern, as far as the texts of the model go
SpaceChars == {" ", "\t", "\n", "\r"}

\* PAIR = {')':'(', '}':'{', ']':'['}; before it, the table with two
\* openers swapped
PAIR_Crossed == (")" :> "(") @@ ("}" :> "[") @@ ("]" :> "{")

PAIR == (")" :> "(") @@ ("}" :> "{") @@ ("]" :> "[")

\* OPEN = set(PAIR.values())
OPEN == {PAIR[c] : c \in DOMAIN PAIR}

\* CLOSE = set(PAIR.keys())
CLOSE == DOMAIN PAIR

(***************************************************************************)
(* Words of the two patterns and of the disable marker                     *)
(***************************************************************************)
kwStruct == <<"s","t","r","u","c","t">>

kwClass == <<"c","l","a","s","s">>

kwEnum == <<"e","n","u","m">>

kwFunc == <<"f","u","n","c">>

kwVar == <<"v","a","r">>

kwLet == <<"l","e","t">>

kwPrivate == <<"p","r","i","v","a","t","e">>

\* (struct|class|enum) of TYPE_RE, in the order of the alternation
TypeKeywords == <<kwStruct, kwClass, kwEnum>>

\* (struct|class|enum|func|var|let) of TOP_PRIVATE_RE
PrivateKeywords == <<kwStruct, kwClass, kwEnum, kwFunc, kwVar, kwLet>>

\* 'swiftlint:disable all'
Marker ==
    <<"s","w","i","f","t","l","i","n","t",":",
      "d","i","s","a","b","l","e"," ","a","l","l">>

(***************************************************************************)
(* String helpers                                                          *)
(***************************************************************************)
\* whether word occurs in text at position p (1-based)
HasAt(text, p, word) ==
    /\ p >= 1
    /\ p + Len(word) - 1 <= Len(text)
    /\ \A k \in 1..Len(word) : text[p + k - 1] = word[k]

\* needle in text
Contains(text, needle) ==
    \E p \in 1..(Len(text) + 1) : HasAt(text, p, needle)

\* str.lower() on one character: the cased characters of the model are the
\* ASCII letters
LowerChar(c) ==
    IF c \in Range(UpperLetters)
    THEN LowerLetters[CHOOSE k \in DOMAIN UpperLetters : UpperLetters[k] = c]
    ELSE c

\* text.lower() with the lowering forgotten
ToLower_Identity(text) == text

\* text.lower()
ToLower(text) == [k \in 1..Len(text) |-> LowerChar(text[k])]

\* 'swiftlint:disable all' in text.lower()
IsDisabled(text) == Contains(ToLower(text), Marker)

\* the first position >= p of text that holds no character of class, or
\* Len(text) + 1
RECURSIVE SkipClass(_, _, _)
SkipClass(text, p, class) ==
    IF p <= Len(text) /\ text[p] \in class
    THEN SkipClass(text, p + 1, class)
    ELSE p

\* \b at position p: between text[p - 1] and text[p]
WordAt(text, p) == p >= 1 /\ p <= Len(text) /\ text[p] \in WordChars

Boundary(text, p) == WordAt(text, p - 1) # WordAt(text, p)

(***************************************************************************)
(* TYPE_RE: a word boundary, one of struct, class, enum, one or more       *)
(* spaces, an identifier (a letter or underscore, then letters, digits,    *)
(* underscores), a word boundary                                           *)
(***************************************************************************)
NoMatch == [ok |-> FALSE, kind |-> <<>>, name |-> <<>>, start |-> 0, end |-> 0]

\* A match of TYPE_RE that starts at position p with keyword kw.  \s+ and the
\* identifier are greedy; giving characters back never helps, because the
\* character after a shorter run is a space or an identifier character.
\* start is m.start() (0-based); end is the 1-based position after the match.
TypeMatchKw(text, p, kw) ==
    LET q == p + Len(kw)
        n == SkipClass(text, q, SpaceChars)
        e == SkipClass(text, n, IdentChars)
    IN  IF /\ Boundary(text, p)
           /\ HasAt(text, p, kw)
           /\ n > q
           /\ n <= Len(text)
           /\ text[n] \in IdentStart
           /\ Boundary(text, e)
        THEN [ok |-> TRUE, kind |-> kw, name |-> SubSeq(text, n, e - 1),
              start |-> p - 1, end |-> e]
        ELSE NoMatch

TypeMatchAt(text, p) ==
    IF \E k \in DOMAIN TypeKeywords : TypeMatchKw(text, p, TypeKeywords[k]).ok
    THEN LET k == CHOOSE j \in DOMAIN TypeKeywords :
                     /\ TypeMatchKw(text, p, TypeKeywords[j]).ok
                     /\ \A h \in 1..(j - 1) : ~TypeMatchKw(text, p, TypeKeywords[h]).ok
         IN  TypeMatchKw(text, p, TypeKeywords[k])
    ELSE NoMatch

\* TYPE_RE.finditer(text): the non-overlapping matches, leftmost first, from
\* position p on
RECURSIVE FindIter(_, _)
FindIter(text, p) ==
    IF p > Len(text) THEN <<>>
    ELSE LET m == TypeMatchAt(text, p)
         IN  IF m.ok THEN <<m>> \o FindIter(text, m.end)
             ELSE FindIter(text, p + 1)

(***************************************************************************)
(* names: a dict, modelled as the sequence of its items in insertion order *)
(***************************************************************************)
HasKey(names, key) == \E k \in DOMAIN names : names[k].name = key

\* names.setdefault(tname, []).append(item)
SetDefaultAppend(names, tname, item) ==
    IF HasKey(names, tname)
    THEN [k \in DOMAIN names |->
            IF names[k].name = tname
            THEN [names[k] EXCEPT !.occ = Append(@, item)]
            ELSE names[k]]
    ELSE Append(names, [name |-> tname, occ |-> <<item>>])

\* for m in TYPE_RE.finditer(text): names.setdefault(...).append(...)
RECURSIVE CollectNames(_, _)
CollectNames(ms, names) ==
    IF ms = <<>> THEN names
    ELSE CollectNames(Tail(ms),
             SetDefaultAppend(names, Head(ms).name,
                              <<Head(ms).kind, Head(ms).start>>))

\* len(occ) > 1; before it, the comparison off by one
IsDuplicate_Three(occ) == Len(occ) > 2

IsDuplicate(occ) == Len(occ) > 1

(***************************************************************************)
(* Diagnostics: the strings appended to errors, field by field             *)
(***************************************************************************)
Diag(p, k, off, cs) == [path |-> p, kind |-> k, offset |-> off, chars |-> cs]

\* f"{path}: Unbalanced or mismatched bracket around offset {i}"
MismatchDiag(p, off) == Diag(p, "mismatch", off, <<>>)

\* ''.join(stack); before it, the join of reversed(stack)
JoinStack_Reversed(stack) == [k \in 1..Len(stack) |-> stack[Len(stack) + 1 - k]]

JoinStack(stack) == stack

\* f"{path}: Unbalanced brackets, open={''.join(stack)}"
OpenDiag(p, stack) == Diag(p, "open", -1, JoinStack(stack))

\* f"{path}: Duplicate type name detected: {name}"
DuplicateDiag(p, name) == Diag(p, "duplicate", -1, name)

\* f"{path}: Many top-level private declarations (>=3). ..."
PrivateDiag(p) == Diag(p, "private", -1, <<>>)

\* for name, occ in names.items(): if len(occ) > 1: errors.append(...)
RECURSIVE DuplicateErrors(_, _)
DuplicateErrors(p, names) ==
    IF names = <<>> THEN <<>>
    ELSE (IF IsDuplicate(Head(names).occ)
          THEN <<DuplicateDiag(p, Head(names).name)>>
          ELSE <<>>) \o DuplicateErrors(p, Tail(names))

(***************************************************************************)
(* str.splitlines() and TOP_PRIVATE_RE                                     *)
(***************************************************************************)
\* the line boundaries of str.splitlines(), as far as the texts of the model go
LineBreaks == {"\n", "\r"}

\* the first position >= p of text that holds a line break, or Len(text) + 1
RECURSIVE NextBreak(_, _)
NextBreak(text, p) ==
    IF p <= Len(text) /\ text[p] \notin LineBreaks
    THEN NextBreak(text, p + 1)
    ELSE p

\* text.splitlines(): "\r\n" is one boundary, and a final boundary ends the
\* last line without opening an empty one
RECURSIVE SplitLines(_)
SplitLines(text) ==
    IF text = <<>> THEN <<>>
    ELSE LET b == NextBreak(text, 1)
             nxt == IF b > Len(text) THEN b
                    ELSE IF /\ text[b] = "\r"
                            /\ b + 1 <= Len(text)
                            /\ text[b + 1] = "\n"
                         THEN b + 2
                         ELSE b + 1
         IN  <<SubSeq(text, 1, b - 1)>> \o SplitLines(SubSeq(text, nxt, Len(text)))

\* TOP_PRIVATE_RE.search(line): at the start of the line (no MULTILINE flag),
\* any spaces, "private", one or more spaces, one of the six declaration
\* keywords, a word boundary
TopPrivateMatch(line) ==
    LET s == SkipClass(line, 1, SpaceChars)
        q == s + Len(kwPrivate)
        n == SkipClass(line, q, SpaceChars)
    IN  /\ HasAt(line, s, kwPrivate)
        /\ n > q
        /\ \E k \in DOMAIN PrivateKeywords :
              /\ HasAt(line, n, PrivateKeywords[k])
              /\ Boundary(line, n + Len(PrivateKeywords[k]))

\* top_privates = 0; for line in ...: if TOP_PRIVATE_RE.search(line): += 1
RECURSIVE CountTopPrivates(_)
CountTopPrivates(lines) ==
    IF lines = <<>> THEN 0
    ELSE (IF TopPrivateMatch(Head(lines)) THEN 1 ELSE 0)
         + CountTopPrivates(Tail(lines))

\* the 3 of top_privates >= 3
PrivateThreshold == 3

\* top_privates >= 3; before it, the comparison made strict
ManyPrivates_Strict(n) == n > PrivateThreshold

ManyPrivates(n) == n >= PrivateThreshold

(***************************************************************************)
(* The balance scan, one character at a time                               *)
(***************************************************************************)
\* not stack or stack[-1] != PAIR[ch]; before it, the test of the empty
\* stack alone
Mismatch_EmptyOnly(stack, ch) == stack = <<>>

Mismatch(stack, ch) == stack = <<>> \/ stack[Len(stack)] # PAIR[ch]

\* where the loop goes after the character at offset i: break leaves the
\* loop with i unchanged, anything else moves on; before it, the loop
\* without the break
AfterChar_NoBreak(mismatch, i) == [pc |-> "scan", i |-> i + 1]

AfterChar(mismatch, i) ==
    IF mismatch THEN [pc |-> "scanned", i |-> i]
    ELSE [pc |-> "scan", i |-> i + 1]

\* if stack: (after the loop)
StillOpen(stack) == stack # <<>>

(***************************************************************************)
(* Paths and the file system                                               *)
(*                                                                         *)
(* A path is the sequence of its names; a name is its stem and its suffix  *)
(* (the part from the last dot on), so that name.endswith('.swift') is a   *)
(* test on the suffix.                                                     *)
(***************************************************************************)
Name(stem, ext) == [stem |-> stem, ext |-> ext]

pA == <<Name("a", ".swift")>>

pN == <<Name("n", ".txt")>>

pD == <<Name("d", "")>>

pDB == pD \o <<Name("b", ".swift")>>

pDM == pD \o <<Name("m", ".txt")>>

pDS == pD \o <<Name("s", "")>>

pDSG == pDS \o <<Name("g", ".swift")>>

pX == <<Name("x", "")>>

NoPath == <<>>

AllPaths == {pA, pN, pD, pDB, pDM, pDS, pDSG, pX}

\* the paths a run may be given as arguments
ArgPaths == {pA, pN, pD, pX}

File(t) == [kind |-> "file", text |-> t]

Dir == [kind |-> "dir", text |-> <<>>]

Absent == [kind |-> "none", text |-> <<>>]

\* path.name.endswith('.swift'); before it, the test that takes every name
EndsWithSwift_Any(path) == TRUE

EndsWithSwift(path) == path[Len(path)].ext = ".swift"

\* the name pattern '*.swift' of rglob
GlobMatch(path) == path[Len(path)].ext = ".swift"

IsUnder(path, dir) ==
    /\ Len(path) > Len(dir)
    /\ SubSeq(path, 1, Len(dir)) = dir

\* target.is_file()
IsFile(files, target) == files[target].kind = "file"

\* target.rglob('*.swift'): every entry below target, at any depth, whose
\* name matches, files and directories alike; nothing when target is no
\* directory.  The order of the entries is the directory order of the OS.
Rglob(files, target) ==
    IF files[target].kind = "dir"
    THEN {q \in AllPaths : /\ files[q].kind # "none"
                           /\ IsUnder(q, target)
                           /\ GlobMatch(q)}
    ELSE {}

\* what walk(target) hands to check_file
WalkTargets(files, target) ==
    IF IsFile(files, target) THEN {target} ELSE Rglob(files, target)

(***************************************************************************)
(* The texts of the model                                                  *)
(***************************************************************************)
MaxDelimLen == 4

MaxDeclFrags == 3

MaxPrivFrags == 3

MaxArgs == 2

SeqsUpTo(S, n) == UNION {[1..k -> S] : k \in 0..n}

RECURSIVE Flatten(_)
Flatten(frags) ==
    IF frags = <<>> THEN <<>> ELSE Head(frags) \o Flatten(Tail(frags))

\* every text of delimiters and a letter, up to MaxDelimLen characters
DelimAlphabet == {"(", ")", "{", "}", "[", "]", "x"}

DelimTexts == SeqsUpTo(DelimAlphabet, MaxDelimLen)

\* declarations of A and B, a keyword that takes the next one as its name,
\* a letter that glues to its neighbours, an opening brace
DeclFrags ==
    { kwStruct \o <<" ", "A", " ">>,
      kwClass \o <<"\n", "A", ";">>,
      kwEnum \o <<" ", "B", "1", " ">>,
      kwStruct \o <<" ">>,
      <<"x">>,
      <<"{">> }

DeclTexts == {Flatten(fr) : fr \in SeqsUpTo(DeclFrags, MaxDeclFrags)}

\* lines that match TOP_PRIVATE_RE, one that does not, one without a line end
PrivFrags ==
    { kwPrivate \o <<" ">> \o kwVar \o <<"\n">>,
      <<"\t">> \o kwPrivate \o <<" ", " ">> \o kwLet \o <<"\r", "\n">>,
      kwPrivate \o <<" ">> \o kwVar \o <<"s", "\r">>,
      kwPrivate \o <<" ">> \o kwFunc }

PrivTexts == {Flatten(fr) : fr \in SeqsUpTo(PrivFrags, MaxPrivFrags)}

ThreePrivates == Flatten([k \in 1..3 |-> kwPrivate \o <<" ">> \o kwVar \o <<"\n">>])

TwoStructs == kwStruct \o <<" ", "A", " ">> \o kwStruct \o <<" ", "A", " ">>

\* the marker in lower, upper and mixed case, and two near misses
MarkerUpper ==
    <<"S","W","I","F","T","L","I","N","T",":",
      "D","I","S","A","B","L","E"," ","A","L","L">>

MarkerMixed ==
    <<"S","w","i","f","t","L","i","n","t",":",
      "d","i","s","a","b","l","e"," ","A","l","l">>

MarkerVariants ==
    {Marker, MarkerUpper, MarkerMixed, Tail(Marker), SubSeq(MarkerUpper, 1, 20)}

MarkerTexts ==
    {pre \o mk \o post :
        pre \in {<<>>, <<"(">>, TwoStructs \o <<"(">>},
        mk \in MarkerVariants,
        post \in {<<>>, <<"]">>, <<"\n">> \o ThreePrivates}}

\* texts that draw every kind of diagnostic at once
KitchenTexts ==
    { ThreePrivates \o TwoStructs \o <<"(", "]">>,
      <<"{">> \o TwoStructs \o kwClass \o <<" ", "A", " ">> \o kwEnum
          \o <<" ", "B", " ", "}">> \o ThreePrivates,
      ThreePrivates \o ThreePrivates \o kwEnum \o <<" ", "B", ")">> }

RichTexts ==
    DelimTexts \cup DeclTexts \cup PrivTexts \cup MarkerTexts \cup KitchenTexts

\* the texts of the runs over several files
SmallTexts == {<<>>, <<"(", "]">>}

\* the tree of the runs: a.swift, n.txt, d/b.swift, d/m.txt, d/s/g.swift;
\* x does not exist
BaseFiles ==
    [q \in AllPaths |->
        CASE q = pA -> File(<<>>)
          [] q = pN -> File(<<"(">>)
          [] q = pD -> Dir
          [] q = pDB -> File(<<>>)
          [] q = pDM -> File(<<")">>)
          [] q = pDS -> Dir
          [] q = pDSG -> File(<<>>)
          [] OTHER -> Absent]

(***************************************************************************)
(* State                                                                   *)
(***************************************************************************)
VARIABLES
    argv,      \* sys.argv[1:]
    files,     \* the file system: path -> kind and text
    pc,        \* where the program is
    argi,      \* how many arguments the loop of line 72 has taken
    pending,   \* what the walk of the current argument has yet to yield
    path,      \* check_file's path, once its text is read
    text,      \* check_file's text
    i,         \* the offset the balance loop is at
    stack,     \* check_file's stack
    errors,    \* the module's errors list
    printed,   \* how many of errors the loop of line 76 has printed
    out,       \* the lines written to standard output
    status,    \* the exit status; -1 while running
    visited,   \* history: the paths handed to check_file, in order
    reads,     \* history: the paths read_text was called on, in order
    mark       \* history: len(errors) when the current text was read

vars ==
    <<argv, files, pc, argi, pending, path, text, i, stack, errors, printed,
      out, status, visited, reads, mark>>

NoDiag == Diag(NoPath, "none", -1, <<>>)

\* print('Usage: validate_swift_structure.py <dir_or_file>')
UsageLine == [tag |-> "Usage", e |-> NoDiag]

\* print(f"STRUCTURE: {e}")
StructureLine(e) == [tag |-> "STRUCTURE", e |-> e]

\* print('Structure check completed (warnings may be shown)')
CompletedLine == [tag |-> "Completed", e |-> NoDiag]

Init ==
    /\ \/ /\ argv \in SeqsUpTo(ArgPaths, MaxArgs)
          /\ \E ta, tb \in SmallTexts :
             \E g \in {Dir} \cup {File(t) : t \in SmallTexts} :
                files = [BaseFiles EXCEPT ![pA] = File(ta),
                                          ![pDB] = File(tb),
                                          ![pDSG] = g]
       \/ /\ argv = <<pA>>
          /\ \E t \in RichTexts : files = [BaseFiles EXCEPT ![pA] = File(t)]
    /\ pc = "start"
    /\ argi = 0
    /\ pending = {}
    /\ path = NoPath
    /\ text = <<>>
    /\ i = 0
    /\ stack = <<>>
    /\ errors = <<>>
    /\ printed = 0
    /\ out = <<>>
    /\ status = -1
    /\ visited = <<>>
    /\ reads = <<>>
    /\ mark = 0

(***************************************************************************)
(* The driver                                                              *)
(***************************************************************************)
\* errors.append(e) for each e of es, in order
Collect(errs, es) == errs \o es

\* the e of the round of for e in errors that follows n rounds; before it,
\* the walk of the list from its end
ErrorToPrint_Reversed(errs, n) == errs[Len(errs) - n]

ErrorToPrint(errs, n) == errs[n + 1]

\* if len(sys.argv) < 2: print usage; sys.exit(2)
Usage ==
    /\ pc = "start"
    /\ Len(argv) < 1
    /\ out' = Append(out, UsageLine)
    /\ status' = 2
    /\ pc' = "exited"
    /\ UNCHANGED <<argv, files, argi, pending, path, text, i, stack, errors,
                   printed, visited, reads, mark>>

\* the definitions of lines 23-70 are executed; the loop of line 72 begins
Start ==
    /\ pc = "start"
    /\ Len(argv) >= 1
    /\ pc' = "walk"
    /\ UNCHANGED <<argv, files, argi, pending, path, text, i, stack, errors,
                   printed, out, status, visited, reads, mark>>

\* for arg in sys.argv[1:]: walk(Path(arg)), up to the first check_file
WalkArg ==
    /\ pc = "walk"
    /\ pending = {}
    /\ argi < Len(argv)
    /\ pending' = WalkTargets(files, argv[argi + 1])
    /\ argi' = argi + 1
    /\ UNCHANGED <<argv, files, pc, path, text, i, stack, errors, printed,
                   out, status, visited, reads, mark>>

\* check_file(p) for a name without the suffix: return before the read
CheckFileNotSwift(p) ==
    /\ pc = "walk"
    /\ p \in pending
    /\ ~EndsWithSwift(p)
    /\ pending' = pending \ {p}
    /\ visited' = Append(visited, p)
    /\ UNCHANGED <<argv, files, pc, argi, path, text, i, stack, errors,
                   printed, out, status, reads, mark>>

\* check_file(p) when path.read_text raises (p is a directory): the
\* exception is caught nowhere, the interpreter prints the traceback to
\* standard error and exits with status 1
CheckFileUnreadable(p) ==
    /\ pc = "walk"
    /\ p \in pending
    /\ EndsWithSwift(p)
    /\ files[p].kind # "file"
    /\ pending' = pending \ {p}
    /\ visited' = Append(visited, p)
    /\ reads' = Append(reads, p)
    /\ status' = 1
    /\ pc' = "exited"
    /\ UNCHANGED <<argv, files, argi, path, text, i, stack, errors, printed,
                   out, mark>>

\* check_file(p) for a text with the disable marker: return after the read
CheckFileDisabled(p) ==
    /\ pc = "walk"
    /\ p \in pending
    /\ EndsWithSwift(p)
    /\ files[p].kind = "file"
    /\ IsDisabled(files[p].text)
    /\ pending' = pending \ {p}
    /\ visited' = Append(visited, p)
    /\ reads' = Append(reads, p)
    /\ path' = p
    /\ text' = files[p].text
    /\ mark' = Len(errors)
    /\ i' = 0
    /\ stack' = <<>>
    /\ UNCHANGED <<argv, files, pc, argi, errors, printed, out, status>>

\* check_file(p) up to stack = []
CheckFileScan(p) ==
    /\ pc = "walk"
    /\ p \in pending
    /\ EndsWithSwift(p)
    /\ files[p].kind = "file"
    /\ ~IsDisabled(files[p].text)
    /\ pending' = pending \ {p}
    /\ visited' = Append(visited, p)
    /\ reads' = Append(reads, p)
    /\ path' = p
    /\ text' = files[p].text
    /\ mark' = Len(errors)
    /\ i' = 0
    /\ stack' = <<>>
    /\ pc' = "scan"
    /\ UNCHANGED <<argv, files, argi, errors, printed, out, status>>

\* one round of for i, ch in enumerate(text)
ScanStep ==
    /\ pc = "scan"
    /\ i < Len(text)
    /\ LET ch == text[i + 1]
           bad == ch \in CLOSE /\ Mismatch(stack, ch)
           nxt == AfterChar(bad, i)
       IN  /\ stack' = IF ch \in OPEN THEN Append(stack, ch)
                       ELSE IF ch \in CLOSE /\ ~bad
                            THEN SubSeq(stack, 1, Len(stack) - 1)
                            ELSE stack
           /\ errors' = IF bad THEN Collect(errors, <<MismatchDiag(path, i)>>)
                        ELSE errors
           /\ pc' = nxt.pc
           /\ i' = nxt.i
    /\ UNCHANGED <<argv, files, argi, pending, path, text, printed, out,
                   status, visited, reads, mark>>

\* after the loop, by its end or by break: if stack: errors.append(open=)
BalanceEnd ==
    /\ \/ pc = "scanned"
       \/ pc = "scan" /\ i >= Len(text)
    /\ errors' = IF StillOpen(stack)
                 THEN Collect(errors, <<OpenDiag(path, stack)>>)
                 ELSE errors
    /\ pc' = "dups"
    /\ UNCHANGED <<argv, files, argi, pending, path, text, i, stack, printed,
                   out, status, visited, reads, mark>>

\* names = {}; the finditer loop; the loop over names.items()
Duplicates ==
    /\ pc = "dups"
    /\ errors' = Collect(errors,
                    DuplicateErrors(path, CollectNames(FindIter(text, 1), <<>>)))
    /\ pc' = "privates"
    /\ UNCHANGED <<argv, files, argi, pending, path, text, i, stack, printed,
                   out, status, visited, reads, mark>>

\* top_privates = 0; the splitlines loop; if top_privates >= 3; return
TopPrivates ==
    /\ pc = "privates"
    /\ errors' = IF ManyPrivates(CountTopPrivates(SplitLines(text)))
                 THEN Collect(errors, <<PrivateDiag(path)>>)
                 ELSE errors
    /\ pc' = "walk"
    /\ UNCHANGED <<argv, files, argi, pending, path, text, i, stack, printed,
                   out, status, visited, reads, mark>>

\* the loop of line 72 ends
WalkDone ==
    /\ pc = "walk"
    /\ pending = {}
    /\ argi = Len(argv)
    /\ pc' = "print"
    /\ UNCHANGED <<argv, files, argi, pending, path, text, i, stack, errors,
                   printed, out, status, visited, reads, mark>>

\* one round of for e in errors: print(f"STRUCTURE: {e}")
PrintError ==
    /\ pc = "print"
    /\ printed < Len(errors)
    /\ out' = Append(out, StructureLine(ErrorToPrint(errors, printed)))
    /\ printed' = printed + 1
    /\ UNCHANGED <<argv, files, pc, argi, pending, path, text, i, stack,
                   errors, status, visited, reads, mark>>

\* print('Structure check completed ...'); the script ends, status 0
PrintCompleted ==
    /\ pc = "print"
    /\ printed = Len(errors)
    /\ out' = Append(out, CompletedLine)
    /\ status' = 0
    /\ pc' = "exited"
    /\ UNCHANGED <<argv, files, argi, pending, path, text, i, stack, errors,
                   printed, visited, reads, mark>>

Next ==
    \/ Usage
    \/ Start
    \/ WalkArg
    \/ \E p \in AllPaths : CheckFileNotSwift(p)
    \/ \E p \in AllPaths : CheckFileUnreadable(p)
    \/ \E p \in AllPaths : CheckFileDisabled(p)
    \/ \E p \in AllPaths : CheckFileScan(p)
    \/ ScanStep
    \/ BalanceEnd
    \/ Duplicates
    \/ TopPrivates
    \/ WalkDone
    \/ PrintError
    \/ PrintCompleted

Spec == Init /\ [][Next]_vars

(***************************************************************************)
(* What the properties are stated in: notions defined on the text alone,   *)
(* not through the scan.                                                   *)
(***************************************************************************)
Openers == {"(", "{", "["}

Closers == {")", "}", "]"}

Matching(a, b) == <<a, b>> \in {<<"(", ")">>, <<"{", "}">>, <<"[", "]">>}

\* the delimiters of a text, in order
Delims(t) == SelectSeq(t, LAMBDA c : c \in Openers \cup Closers)

\* a sequence of delimiters with every adjacent matching pair struck out,
\* again and again: empty exactly for the perfectly nested sequences
RECURSIVE Cancel(_)
Cancel(d) ==
    IF \E k \in 1..(Len(d) - 1) : Matching(d[k], d[k + 1])
    THEN LET k == CHOOSE j \in 1..(Len(d) - 1) :
                     /\ Matching(d[j], d[j + 1])
                     /\ \A h \in 1..(j - 1) : ~Matching(d[h], d[h + 1])
         IN  Cancel(SubSeq(d, 1, k - 1) \o SubSeq(d, k + 2, Len(d)))
    ELSE d

Balanced(t) == Cancel(Delims(t)) = <<>>

\* what is still open after the first k characters of t
OpenAfter(t, k) == Cancel(Delims(SubSeq(t, 1, k)))

\* the character at offset k closes something that is not the innermost
\* open delimiter, or closes nothing
BadAt(t, k) ==
    /\ t[k + 1] \in Closers
    /\ LET r == OpenAfter(t, k)
       IN  r = <<>> \/ ~Matching(r[Len(r)], t[k + 1])

HasBad(t) == \E k \in 0..(Len(t) - 1) : BadAt(t, k)

\* the offset of the first such character
FirstBad(t) ==
    CHOOSE k \in 0..(Len(t) - 1) :
        BadAt(t, k) /\ \A h \in 0..(k - 1) : ~BadAt(t, h)

\* where the scan of t ends: at the first such character, or at the end
ScanEnd(t) == IF HasBad(t) THEN FirstBad(t) ELSE Len(t)

\* the marker, each of its characters in either case
MarkerAnyCase(t) ==
    \E p \in 1..(Len(t) + 1) :
        /\ p + Len(Marker) - 1 <= Len(t)
        /\ \A j \in 1..Len(Marker) : t[p + j - 1] \in {Marker[j], MarkerUpper[j]}

OfKind(es, k) == SelectSeq(es, LAMBDA e : e.kind = k)

\* the diagnostics of the file whose text was read last
Seg == SubSeq(errors, mark + 1, Len(errors))

BalanceDiags(es) == SelectSeq(es, LAMBDA e : e.kind \in {"mismatch", "open"})

\* the checks 4.1-4.3 run on the current text
Checked == path # NoPath /\ ~MarkerAnyCase(text)

\* the balance loop of the current text has ended
LoopOver == Checked /\ pc \in {"scanned", "dups", "privates", "walk", "print", "exited"}

\* ... and so has the check of the stack after it
BalanceDone == Checked /\ pc \in {"dups", "privates", "walk", "print", "exited"}

DupsDone == Checked /\ pc \in {"privates", "walk", "print", "exited"}

FileDone == Checked /\ pc \in {"walk", "print", "exited"}

(***************************************************************************)
(* C1-C4: the balance scan                                                 *)
(***************************************************************************)
\* C1: a text whose delimiters are perfectly nested gets no balance
\* diagnostic, neither the mismatch message nor the open= message.
C1_BalancedTextNoDiagnostic ==
    (Checked /\ Balanced(text)) => BalanceDiags(Seg) = <<>>

\* a nest of two different pairs has been scanned to its end
C1_Witness ==
    /\ BalanceDone
    /\ pc = "exited"
    /\ status = 0
    /\ Delims(text) = <<"(", "[", "]", ")">>
    /\ BalanceDiags(Seg) = <<>>

\* C2 as stated: one file never gets more than one balance diagnostic.
C2_AtMostOneBalanceDiagnostic ==
    Checked => Len(BalanceDiags(Seg)) <= 1

\* C2, amended: one file gets at most one mismatch message and at most one
\* open= message, the mismatch message first; it gets both exactly when the
\* first closer that does not match meets a stack that is not empty.
C2_AtMostOneOfEachKind ==
    /\ Checked =>
          /\ Len(OfKind(Seg, "mismatch")) <= 1
          /\ Len(OfKind(Seg, "open")) <= 1
          /\ Len(BalanceDiags(Seg)) = 2 => BalanceDiags(Seg)[1].kind = "mismatch"
    /\ BalanceDone =>
          (Len(BalanceDiags(Seg)) = 2
             <=> (HasBad(text) /\ OpenAfter(text, FirstBad(text)) # <<>>))

\* a closer has met the wrong opener, and both messages are there
C2_Witness ==
    /\ BalanceDone
    /\ pc = "exited"
    /\ status = 0
    /\ Len(BalanceDiags(Seg)) = 2
    /\ \E k \in 1..(Len(text) - 1) : text[k] = "(" /\ text[k + 1] = "]"

\* C3: the first closer that meets an empty stack or the wrong top yields
\* exactly one mismatch message, with that closer's offset; the scan stops
\* there, so the stack is what was open before that offset and nothing
\* behind it is pushed or popped; a closer before any opener leaves this
\* message as the file's only balance diagnostic, with no open= message.
C3_FirstMismatchStopsScan ==
    /\ (Checked /\ HasBad(text)) => i <= FirstBad(text)
    /\ (Checked /\ pc = "scan") => OfKind(Seg, "mismatch") = <<>>
    /\ (LoopOver /\ ~HasBad(text)) => OfKind(Seg, "mismatch") = <<>>
    /\ (LoopOver /\ HasBad(text)) =>
          LET k == FirstBad(text)
          IN  /\ OfKind(Seg, "mismatch") = <<Diag(path, "mismatch", k, <<>>)>>
              /\ i = k
              /\ stack = OpenAfter(text, k)
              /\ (BalanceDone /\ \A h \in 1..k : text[h] \notin Openers) =>
                    /\ Len(BalanceDiags(Seg)) = 1
                    /\ OfKind(Seg, "open") = <<>>

\* a closer came before any opener and an opener came after it
C3_Witness ==
    /\ BalanceDone
    /\ pc = "exited"
    /\ status = 0
    /\ HasBad(text)
    /\ FirstBad(text) + 1 < Len(text)
    /\ \A h \in 1..FirstBad(text) : text[h] \notin Openers
    /\ \E h \in (FirstBad(text) + 2)..Len(text) : text[h] \in Openers
    /\ stack = <<>>
    /\ Len(BalanceDiags(Seg)) = 1

\* C4: when the scan has ended, at the end of the text or at the first
\* mismatch, there is an open= message exactly when the stack is not empty,
\* and it lists what is open at that point, outermost first; without any
\* mismatching closer it is the file's only balance diagnostic.
C4_OpenListsStack ==
    BalanceDone =>
        /\ stack = OpenAfter(text, ScanEnd(text))
        /\ OfKind(Seg, "open") =
              (IF stack # <<>> THEN <<Diag(path, "open", -1, stack)>> ELSE <<>>)
        /\ (~HasBad(text) /\ stack # <<>>) =>
              BalanceDiags(Seg) = <<Diag(path, "open", -1, stack)>>

\* two different openers were left open, and nothing mismatched
C4_Witness ==
    /\ BalanceDone
    /\ pc = "exited"
    /\ status = 0
    /\ ~HasBad(text)
    /\ Len(stack) >= 2
    /\ stack[1] # stack[2]
    /\ BalanceDiags(Seg) = <<Diag(path, "open", -1, stack)>>

(***************************************************************************)
(* C5-C7: the disable marker, duplicate type names, top-level privates     *)
(***************************************************************************)
\* C5: a file whose text holds the disable marker, in any letter case, has
\* no diagnostic of any kind in errors.
C5_DisabledFileNoDiagnostic ==
    \A k \in 1..Len(errors) : ~MarkerAnyCase(files[errors[k].path].text)

\* the declarations of a text: the matches ms of the type pattern
Occurrences(ms, name) == Cardinality({k \in DOMAIN ms : ms[k].name = name})

DeclaredNames(ms) == {ms[k].name : k \in DOMAIN ms}

\* the lines of a text that match the top-level-private pattern
PrivateLines(t) ==
    LET ls == SplitLines(t)
    IN  Cardinality({k \in DOMAIN ls : TopPrivateMatch(ls[k])})

\* a run over a file with the marker in mixed case, an unclosed
\* parenthesis, a type declared twice and three private lines has ended
\* without a diagnostic
C5_Witness ==
    /\ pc = "exited"
    /\ status = 0
    /\ reads = <<pA>>
    /\ MarkerAnyCase(text)
    /\ ~Contains(text, Marker)
    /\ ~Contains(text, MarkerUpper)
    /\ ~Balanced(text)
    /\ \E n \in DeclaredNames(FindIter(text, 1)) :
          Occurrences(FindIter(text, 1), n) >= 2
    /\ PrivateLines(text) >= 3
    /\ errors = <<>>

\* C6: exactly one duplicate-name message for each identifier declared two
\* or more times (struct, class and enum together), however often it
\* repeats, and none for any other identifier.
C6_OneDiagnosticPerDuplicateName ==
    DupsDone =>
        LET ms == FindIter(text, 1)
        IN  /\ \A n \in DeclaredNames(ms) :
                  Len(SelectSeq(Seg, LAMBDA e : e.kind = "duplicate" /\ e.chars = n))
                     = (IF Occurrences(ms, n) >= 2 THEN 1 ELSE 0)
            /\ \A k \in 1..Len(Seg) :
                  Seg[k].kind = "duplicate" =>
                     /\ Seg[k].chars \in DeclaredNames(ms)
                     /\ Seg[k].path = path

\* one name declared three times with two different keywords, another one
\* declared once: one message, for the first
C6_Witness ==
    /\ DupsDone
    /\ pc = "exited"
    /\ status = 0
    /\ LET ms == FindIter(text, 1)
       IN  \E n1, n2 \in DeclaredNames(ms) :
              /\ Occurrences(ms, n1) = 3
              /\ Occurrences(ms, n2) = 1
              /\ \E j, k \in DOMAIN ms :
                    ms[j].name = n1 /\ ms[k].name = n1 /\ ms[j].kind # ms[k].kind
              /\ OfKind(Seg, "duplicate") = <<Diag(path, "duplicate", -1, n1)>>

\* C7: the many-privates message is there exactly once when three or more
\* lines of the file match the top-level-private pattern, and not at all
\* when two or fewer do.
C7_PrivateThreshold ==
    /\ Checked => Len(OfKind(Seg, "private")) <= 1
    /\ FileDone =>
          Len(OfKind(Seg, "private")) = (IF PrivateLines(text) >= 3 THEN 1 ELSE 0)

\* exactly three matching lines drew the message
C7_Witness ==
    /\ FileDone
    /\ pc = "exited"
    /\ status = 0
    /\ PrivateLines(text) = 3
    /\ Len(SplitLines(text)) > 3
    /\ OfKind(Seg, "private") = <<Diag(path, "private", -1, <<>>)>>

(***************************************************************************)
(* C8-C10: the driver                                                      *)
(***************************************************************************)
HasSuffix(p) == p[Len(p)].ext = ".swift"

\* the names with two or more declarations, in the order of their first one
DuplicateNames(t) ==
    LET ms == FindIter(t, 1)
        first == SelectSeq([k \in DOMAIN ms |-> k],
                    LAMBDA k : /\ \A j \in 1..(k - 1) : ms[j].name # ms[k].name
                               /\ Occurrences(ms, ms[k].name) >= 2)
    IN  [k \in DOMAIN first |-> ms[first[k]].name]

\* the diagnostics of one file, from its path and its text alone: balance,
\* then duplicate names, then top-level privates
FileDiags(p, t) ==
    IF MarkerAnyCase(t) THEN <<>>
    ELSE LET open == OpenAfter(t, ScanEnd(t))
             dups == DuplicateNames(t)
         IN  (IF HasBad(t) THEN <<Diag(p, "mismatch", FirstBad(t), <<>>)>> ELSE <<>>)
             \o (IF open # <<>> THEN <<Diag(p, "open", -1, open)>> ELSE <<>>)
             \o [k \in DOMAIN dups |-> Diag(p, "duplicate", -1, dups[k])]
             \o (IF PrivateLines(t) >= 3
                 THEN <<Diag(p, "private", -1, <<>>)>>
                 ELSE <<>>)

\* the diagnostics of the files of ps that have the suffix, in the order of ps
RECURSIVE ReportOf(_, _)
ReportOf(fs, ps) ==
    IF ps = <<>> THEN <<>>
    ELSE (IF HasSuffix(Head(ps)) /\ fs[Head(ps)].kind = "file"
          THEN FileDiags(Head(ps), fs[Head(ps)].text)
          ELSE <<>>) \o ReportOf(fs, Tail(ps))

\* the files with the suffix that an argument stands for
Qualifying(fs, arg) ==
    IF fs[arg].kind = "file" THEN {q \in {arg} : HasSuffix(q)}
    ELSE IF fs[arg].kind = "dir"
         THEN {q \in AllPaths : fs[q].kind = "file" /\ IsUnder(q, arg) /\ HasSuffix(q)}
         ELSE {}

RECURSIVE SumQualifying(_, _)
SumQualifying(fs, args) ==
    IF args = <<>> THEN 0
    ELSE Cardinality(Qualifying(fs, Head(args))) + SumQualifying(fs, Tail(args))

\* C8: between two files and at the report, errors is the concatenation, in
\* traversal order, of the diagnostics of the files with the suffix, each
\* file's diagnostics a function of its own path and text, in the order
\* balance, duplicate names, privates; a file without the suffix is never
\* read; when the walk is over, the files read are the qualifying files of
\* the arguments, once per argument that reaches them.
C8_ReportIsConcatenation ==
    /\ \A k \in 1..Len(reads) : HasSuffix(reads[k])
    /\ reads = SelectSeq(visited, HasSuffix)
    /\ pc \in {"walk", "print", "exited"} => errors = ReportOf(files, visited)
    /\ pc = "print" =>
          /\ Len(reads) = SumQualifying(files, argv)
          /\ Range(reads) = UNION {Qualifying(files, argv[k]) : k \in DOMAIN argv}

\* a directory with two qualifying files and one other file, then a file
\* without the suffix: two files read, diagnostics of both in the report
C8_Witness ==
    /\ pc = "exited"
    /\ status = 0
    /\ argv = <<pD, pN>>
    /\ Len(reads) = 2
    /\ visited = reads \o <<pN>>
    /\ \E j, k \in 1..Len(errors) :
          j < k /\ errors[j].path = reads[1] /\ errors[k].path = reads[2]

\* C9 as stated: the line of a diagnostic is written when the diagnostic is
\* produced, so while a file is scanned the lines of the diagnostics of
\* the files before it are on the output.
C9_StreamedBeforeLaterScan ==
    pc \in {"scan", "scanned", "dups", "privates"} =>
        \A k \in 1..mark : \E j \in 1..Len(out) : out[j] = StructureLine(errors[k])

\* C9, amended: nothing is written while files are walked; once the last
\* file is done the diagnostic lines are written in the order the
\* diagnostics were collected, and a run that gets there ends with them
\* all, followed by the completion notice.
C9_ReportAfterWalk ==
    /\ pc \in {"start", "walk", "scan", "scanned", "dups", "privates"} => out = <<>>
    /\ pc = "print" =>
          /\ printed <= Len(errors)
          /\ out = [k \in 1..printed |-> StructureLine(errors[k])]
    /\ (pc = "exited" /\ status = 0) =>
          out = [k \in 1..Len(errors) |-> StructureLine(errors[k])] \o <<CompletedLine>>

\* a run over two files with diagnostics has written its report
C9_Witness ==
    /\ pc = "exited"
    /\ status = 0
    /\ Len(out) >= 4
    /\ \E j, k \in 1..Len(errors) :
          j < k /\ errors[j].path # errors[k].path /\ errors[j].kind # errors[k].kind

\* C10: without arguments the run ends with the usage status, with no file
\* read and no report; with one or more arguments it always ends with the
\* completion notice and status 0.
C10_OnlyUsageAborts ==
    pc = "exited" =>
        IF Len(argv) = 0
        THEN status = 2 /\ reads = <<>> /\ out = <<UsageLine>>
        ELSE /\ status = 0
             /\ out # <<>>
             /\ out[Len(out)] = CompletedLine

====
